---- MODULE Spec2Model ----
(***************************************************************************)
(* Model of src/native/evntrace.rs: the process-wide registry of valid     *)
(* callback contexts (UNIQUE_VALID_CONTEXTS), the callback dispatcher      *)
(* (trace_callback_thunk) and the session control operations               *)
(* (start_trace, open_trace, close_trace, ...).                            *)
(*                                                                         *)
(* The callback context is the address of a heap allocated                 *)
(* Box<Arc<CallbackData>>.  The Box is owned by the session object; the    *)
(* Arc it holds keeps the CallbackData alive.  The OS calls the dispatcher *)
(* from its own threads, concurrently with the control operations.         *)
(***************************************************************************)
EXTENDS Integers, Sequences, FiniteSets, TLC

(* ----------------------------- bounds --------------------------------- *)
\* how many handler states (Box<Arc<CallbackData>>) the callers allocate
MaxAlloc == 2
\* how many well-formed event records the OS hands to the dispatcher
MaxRec == 2

(* ------------------------ program constants --------------------------- *)
ERROR_SUCCESS == 0
ERROR_ALREADY_EXISTS == 183
ERROR_CTX_CLOSE_PENDING == 7007
\* a 64 bit value is kept as four 16 bit limbs, most significant first
LimbMax == 65535

U64(l3, l2, l1, l0) == <<l3, l2, l1, l0>>
U64Max == U64(LimbMax, LimbMax, LimbMax, LimbMax)
\* u32::MAX as u64
U32MaxAsU64 == U64(0, 0, LimbMax, LimbMax)
U64Zero == U64(0, 0, 0, 0)

\* WIN32_ERROR::to_hresult, as an i32: 0 stays 0, any other code c becomes
\* (c & 0xFFFF) | (7 << 16) | 0x80000000
ToHresult(e) ==
    IF e = 0 THEN 0 ELSE (((e % 65536) + 7 * 65536) - 2147483647) - 1

(* ------------------------- model universe ----------------------------- *)
\* heap addresses at which a Box<Arc<CallbackData>> can live (never null)
Addr == {1, 2}
\* an allocated CallbackData: the address of its Box and the allocation count
Obj == Addr \X (1..MaxAlloc)
NoObj == <<0, 0>>
\* subscription handle values the OS returns from OpenTraceW
ValidHandles == {U64(0, 0, 0, 1), U64(0, 0, 0, 2)}
SentinelHandles == {U64Max, U32MaxAsU64}
\* other Win32 statuses the OS answers with: ERROR_ACCESS_DENIED and
\* ERROR_INVALID_HANDLE
OtherErrors == {5, 6}
\* what CloseTrace answers for a handle that is not open: ERROR_INVALID_HANDLE
NotOpenStatus == CHOOSE e \in OtherErrors : e > 5
\* OS threads that run the dispatcher, and threads that issue control calls
CbThread == {"cb1"}
CtlThread == {"ctl1"}
Thread == CbThread \cup CtlThread
NoThread == "none"

VARIABLES
    registry,   \* UNIQUE_VALID_CONTEXTS: the set of registered addresses
    lock,       \* the holder of the registry Mutex, or NoThread
    boxLive,    \* boxLive[a]: a Box<Arc<CallbackData>> is allocated at a
    boxGen,     \* boxGen[a]: how many Boxes were allocated at a so far
    strong,     \* strong[o]: the Arc strong count of CallbackData o
    osSub,      \* the OS's table of subscriptions, by handle
    pc,         \* where each thread is
    loc,        \* each thread's locals, and the result of the call it finished
    delivered,  \* the records on_event was called with, in order
    nextRec,    \* the number of the next record the OS will hand over
    exited      \* "no", or how the process ended

vars == <<registry, lock, boxLive, boxGen, strong, osSub, pc, loc,
          delivered, nextRec, exited>>

(* ------------------------------ results ------------------------------- *)
\* EvntraceNativeResult<T>: Ok(v) or Err(EvntraceNativeError)
Ok(v) == [tag |-> "Ok", val |-> v]
InvalidHandle == [tag |-> "InvalidHandle", val |-> 0]
AlreadyExist == [tag |-> "AlreadyExist", val |-> 0]
IoError(code) == [tag |-> "IoError", val |-> code]
\* the dispatcher returns nothing; val counts the on_event calls it made
Returned(n) == [tag |-> "Returned", val |-> n]

(* --------------------------- handle validators ------------------------ *)
\* Option<T>: None is the empty set, Some(x) the set of x alone
None == {}
Some(x) == {x}

\* the value inside a Some
Unwrap(o) == CHOOSE x \in o : TRUE

\* (variant that knows only the 64-bit sentinel)
filter_invalid_trace_handles_u64_only(h) ==
    IF h = U64Max THEN None ELSE Some(h)

filter_invalid_trace_handles(h) ==
    IF h = U64Max \/ h = U32MaxAsU64 THEN None ELSE Some(h)

\* (variant that looks at the low 32 bits of the handle only)
filter_invalid_control_handle_low_bits(h) ==
    IF h[3] = 0 /\ h[4] = 0 THEN None ELSE Some(h)

filter_invalid_control_handle(h) ==
    IF h = U64Zero THEN None ELSE Some(h)

(* ------------------- UniqueValidContexts (the registry) ---------------- *)
\* (variant of insert that does not look at what HashSet::insert answers)
UVC_insert_always(reg, a) == <<reg \cup {a}, "Ok">>

\* HashSet::insert: <<the set afterwards, Ok or Err(AlreadyExist)>>
UVC_insert(reg, a) ==
    IF a \notin reg THEN <<reg \cup {a}, "Ok">> ELSE <<reg, "AlreadyExist">>

\* (variants of remove: one that removes nothing, one that empties the set)
UVC_remove_kept(reg, a) == reg
UVC_remove_all(reg, a) == {}

\* HashSet::remove, the result is dropped
UVC_remove(reg, a) == reg \ {a}

\* HashSet::contains
UVC_is_valid(reg, a) == a \in reg

(* ------------------------------- heap --------------------------------- *)
\* the CallbackData the Box at address a holds (the latest allocated there)
ObjAt(a) == <<a, boxGen[a]>>

NoSub == [ctx |-> 0, obj |-> NoObj, st |-> "unused"]

\* A thread's locals: the operation it runs, the context address, the handle,
\* the record number, the CallbackData reached through the context, whether
\* that was read from freed memory, whether the registry had the context, the
\* number of on_event calls made, the OS primitive invoked, the arguments it
\* was given and the status it answered, the result; and (history) whether
\* the context was not registered
\* when the invocation began and has not been registered since.
NoArg == <<>>
NoLoc == [op |-> "none", ctx |-> 0, h |-> NoArg, rec |-> 0, obj |-> NoObj,
          stale |-> FALSE, found |-> FALSE, n |-> 0, os |-> "none",
          osarg |-> NoArg, status |-> 0, res |-> Returned(0), fresh |-> FALSE]

Running == exited = "no"

Init ==
    /\ registry = {}
    /\ lock = NoThread
    /\ boxLive = [a \in Addr |-> FALSE]
    /\ boxGen = [a \in Addr |-> 0]
    /\ strong = [o \in Obj |-> 0]
    /\ osSub = [h \in ValidHandles |-> NoSub]
    /\ pc = [t \in Thread |-> "idle"]
    /\ loc = [t \in Thread |-> NoLoc]
    /\ delivered = <<>>
    /\ nextRec = 1
    /\ exited = "no"

(* --------------------------- the registry lock ------------------------ *)
\* Mutex::lock: blocks until the Mutex is free
Acquire(t) == lock = NoThread /\ lock' = t
\* the MutexGuard is dropped
Release(t) == lock = t /\ lock' = NoThread

\* the call of thread t returns res to its caller
Finish(t, res) ==
    /\ pc' = [pc EXCEPT ![t] = "ret"]
    /\ loc' = [loc EXCEPT ![t].res = res]

\* the caller has taken the result
Return(t) ==
    /\ Running /\ pc[t] = "ret"
    /\ pc' = [pc EXCEPT ![t] = "idle"]
    /\ loc' = [loc EXCEPT ![t] = NoLoc]
    /\ UNCHANGED <<registry, lock, boxLive, boxGen, strong, osSub, delivered,
                   nextRec, exited>>

(* ------------------------ trace_callback_thunk ------------------------ *)
NullRecord == 0
\* a record pointer that is not null but that from_ptr cannot interpret
MalformedRecord == 0 - 1
BadRecords == {NullRecord, MalformedRecord}
\* the subscriptions the OS has records for: those OpenTraceW accepted
OsRecords == {h \in ValidHandles : osSub[h].st # "unused"}

\* EventRecord::from_ptr: None if the pointer cannot be interpreted as a
\* record (null or malformed)
from_ptr(p) == IF p \in BadRecords THEN None ELSE Some(p)

\* (variant of the dispatcher that looks the context up before it has looked
\* at what from_ptr gave)
ThunkNull_checks_registry(t, p) ==
    /\ Running /\ pc[t] = "idle" /\ p \in BadRecords
    /\ Acquire(t)
    /\ pc' = [pc EXCEPT ![t] = "t_is_valid"]
    /\ loc' = [loc EXCEPT ![t] =
           [NoLoc EXCEPT !.op = "trace_callback_thunk", !.rec = p]]
    /\ UNCHANGED <<registry, boxLive, boxGen, strong, osSub, delivered,
                   nextRec, exited>>

\* The OS calls the dispatcher with a record pointer p that from_ptr gives
\* None for: the closure returns.
ThunkNull(t, p) ==
    /\ Running /\ pc[t] = "idle" /\ p \in BadRecords
    /\ from_ptr(p) = None
    /\ pc' = [pc EXCEPT ![t] = "ret"]
    /\ loc' = [loc EXCEPT ![t] =
           [NoLoc EXCEPT !.op = "trace_callback_thunk", !.rec = p]]
    /\ UNCHANGED <<registry, lock, boxLive, boxGen, strong, osSub, delivered,
                   nextRec, exited>>

\* The OS calls the dispatcher with a record of subscription h; the record
\* carries the context given to OpenTraceW.  The dispatcher reads the context
\* and enters UNIQUE_VALID_CONTEXTS.is_valid, which takes the lock ...
ThunkCall(t, h) ==
    /\ Running /\ pc[t] = "idle"
    /\ h \in OsRecords
    /\ nextRec <= MaxRec
    /\ from_ptr(nextRec) # None
    /\ Acquire(t)
    /\ nextRec' = nextRec + 1
    /\ pc' = [pc EXCEPT ![t] = "t_is_valid"]
    /\ loc' = [loc EXCEPT ![t] =
           [NoLoc EXCEPT !.op = "trace_callback_thunk", !.ctx = osSub[h].ctx,
                         !.h = h, !.rec = nextRec,
                         !.fresh = osSub[h].ctx \notin registry]]
    /\ UNCHANGED <<registry, boxLive, boxGen, strong, osSub, delivered,
                   exited>>

\* (variant of the lookup whose MutexGuard lives on until the closure ends)
ThunkIsValid_guard_kept(t) ==
    /\ Running /\ pc[t] = "t_is_valid"
    /\ lock = t
    /\ IF UVC_is_valid(registry, loc[t].ctx)
          THEN /\ pc' = [pc EXCEPT ![t] = "t_clone"]
               /\ loc' = [loc EXCEPT ![t].found = TRUE]
               /\ UNCHANGED lock
          ELSE Finish(t, Returned(loc[t].n)) /\ lock' = NoThread
    /\ UNCHANGED <<registry, boxLive, boxGen, strong, osSub, delivered,
                   nextRec, exited>>

\* ... looks the context up and releases the lock; the dispatcher returns if
\* the context is not there
ThunkIsValid(t) ==
    /\ Running /\ pc[t] = "t_is_valid"
    /\ Release(t)
    /\ IF UVC_is_valid(registry, loc[t].ctx)
          THEN /\ pc' = [pc EXCEPT ![t] = "t_clone"]
               /\ loc' = [loc EXCEPT ![t].found = TRUE]
          ELSE Finish(t, Returned(loc[t].n))
    /\ UNCHANGED <<registry, boxLive, boxGen, strong, osSub, delivered,
                   nextRec, exited>>

\* p_callback_data.as_ref() and Arc::clone: read the Arc out of the Box at
\* the context address and add one to its strong count.  If the Box has been
\* freed the read is of freed memory: the process crashes, or the stale Arc
\* is used as if it were alive.
ThunkClone(t, crashes) ==
    /\ Running /\ pc[t] = "t_clone"
    /\ IF boxLive[loc[t].ctx]
          THEN /\ crashes = FALSE
               /\ strong' = [strong EXCEPT ![ObjAt(loc[t].ctx)] = @ + 1]
               /\ loc' = [loc EXCEPT ![t].obj = ObjAt(loc[t].ctx)]
               /\ pc' = [pc EXCEPT ![t] = "t_on_event"]
               /\ UNCHANGED exited
          ELSE /\ UNCHANGED strong
               /\ IF crashes
                     THEN exited' = "crash" /\ UNCHANGED <<loc, pc>>
                     ELSE /\ loc' = [loc EXCEPT ![t].obj = ObjAt(loc[t].ctx),
                                                 ![t].stale = TRUE]
                          /\ pc' = [pc EXCEPT ![t] = "t_on_event"]
                          /\ UNCHANGED exited
    /\ UNCHANGED <<registry, lock, boxLive, boxGen, osSub, delivered,
                   nextRec>>

\* (variant of the delivery that puts the record before the earlier ones)
ThunkOnEvent_out_of_order(t) ==
    /\ Running /\ pc[t] = "t_on_event"
    /\ delivered' = <<loc[t].rec>> \o delivered
    /\ pc' = [pc EXCEPT ![t] = "t_in_handler"]
    /\ loc' = [loc EXCEPT ![t].n = @ + 1]
    /\ UNCHANGED <<registry, lock, boxLive, boxGen, strong, osSub, nextRec, exited>>

\* cloned_arc.on_event(event_record) is entered
ThunkOnEvent(t) ==
    /\ Running /\ pc[t] = "t_on_event"
    /\ delivered' = Append(delivered, loc[t].rec)
    /\ pc' = [pc EXCEPT ![t] = "t_in_handler"]
    /\ loc' = [loc EXCEPT ![t].n = @ + 1]
    /\ UNCHANGED <<registry, lock, boxLive, boxGen, strong, osSub, nextRec, exited>>

\* on_event returns, or it panics and unwinds to catch_unwind; either way
\* cloned_arc is dropped
ThunkHandlerDone(t, panics) ==
    /\ Running /\ pc[t] = "t_in_handler"
    /\ strong' = IF loc[t].stale THEN strong
                 ELSE [strong EXCEPT ![loc[t].obj] = @ - 1]
    /\ IF panics
          THEN pc' = [pc EXCEPT ![t] = "t_panicked"] /\ UNCHANGED loc
          ELSE Finish(t, Returned(loc[t].n))
    /\ UNCHANGED <<registry, lock, boxLive, boxGen, osSub, delivered,
                   nextRec, exited>>

\* (variant of the Err arm that logs the panic and lets the closure return)
ThunkCatch_logs_only(t) ==
    /\ Running /\ pc[t] = "t_panicked"
    /\ Finish(t, Returned(loc[t].n))
    /\ UNCHANGED <<registry, lock, boxLive, boxGen, strong, osSub, delivered,
                   nextRec, exited>>

\* catch_unwind gave Err: the panic is logged and std::process::exit(1) ends
\* the process; the dispatcher does not return
ThunkCatch(t) ==
    /\ Running /\ pc[t] = "t_panicked"
    /\ exited' = "exit1"
    /\ UNCHANGED <<registry, lock, boxLive, boxGen, strong, osSub, pc, loc,
                   delivered, nextRec>>

(* ---------------------- the owner of the handler state ---------------- *)
\* a control call in progress borrows the &Box<Arc<CallbackData>> it was given
Borrowed(a) ==
    \E t \in CtlThread : pc[t] \notin {"idle", "ret"} /\ loc[t].ctx = a

Allocated == boxGen[1] + boxGen[2]

\* Box::new(Arc::new(callback_data)): the caller creates the handler state.
\* The allocator may give any free address; addresses are used lowest first,
\* and an address freed before can be given again.
AllocBox(a) ==
    /\ Running
    /\ ~boxLive[a] /\ Allocated < MaxAlloc
    /\ \A b \in Addr : b < a => boxGen[b] > 0
    /\ boxLive' = [boxLive EXCEPT ![a] = TRUE]
    /\ boxGen' = [boxGen EXCEPT ![a] = @ + 1]
    /\ strong' = [strong EXCEPT ![<<a, boxGen[a] + 1>>] = 1]
    /\ UNCHANGED <<registry, lock, osSub, pc, loc, delivered, nextRec, exited>>

\* The owner drops the Box, and with it its Arc.  It has called close_trace
\* on every subscription it opened with this handler state.
DropBox(a) ==
    /\ Running
    /\ boxLive[a] /\ ~Borrowed(a)
    /\ \A h \in ValidHandles : osSub[h].obj = ObjAt(a) => osSub[h].st # "open"
    /\ boxLive' = [boxLive EXCEPT ![a] = FALSE]
    /\ strong' = [strong EXCEPT ![ObjAt(a)] = @ - 1]
    /\ UNCHANGED <<registry, lock, boxGen, osSub, pc, loc, delivered,
                   nextRec, exited>>

(* ------------------------------ open_trace ---------------------------- *)
\* EventTraceLogfile::create with the address of the Box as context, then
\* UNIQUE_VALID_CONTEXTS.insert takes the lock ...
OpenBegin(t, a) ==
    /\ Running /\ pc[t] = "idle"
    /\ boxLive[a]
    /\ Acquire(t)
    /\ pc' = [pc EXCEPT ![t] = "o_insert"]
    /\ loc' = [loc EXCEPT ![t] =
           [NoLoc EXCEPT !.op = "open_trace", !.ctx = a, !.obj = ObjAt(a)]]
    /\ UNCHANGED <<registry, boxLive, boxGen, strong, osSub, delivered,
                   nextRec, exited>>

\* history: a successful insert of a ends "not registered since" for a
Reregistered(l, a) == IF l.ctx = a THEN [l EXCEPT !.fresh = FALSE] ELSE l

\* ... inserts the context and releases the lock; on AlreadyExist open_trace
\* returns Err(AlreadyExist)
OpenInsert(t) ==
    /\ Running /\ pc[t] = "o_insert"
    /\ Release(t)
    /\ LET r == UVC_insert(registry, loc[t].ctx) IN
        /\ registry' = r[1]
        /\ IF r[2] = "Ok"
              THEN /\ pc' = [pc EXCEPT ![t] = "o_os"]
                   /\ loc' = [u \in Thread |-> Reregistered(loc[u], loc[t].ctx)]
              ELSE Finish(t, AlreadyExist)
    /\ UNCHANGED <<boxLive, boxGen, strong, osSub, delivered, nextRec,
                   exited>>

\* (variant of the end of open_trace that unregisters on an invalid handle)
open_trace_registry_rollback(reg, a, h) ==
    IF filter_invalid_trace_handles(h) = None THEN UVC_remove(reg, a) ELSE reg

\* the registry after OpenTraceW returned h: open_trace does not touch it
\* again, whatever h is
open_trace_registry(reg, a, h) == reg

\* the result of open_trace when OpenTraceW returned h and last_os_error()
\* is e
open_trace_result(h, e) ==
    IF filter_invalid_trace_handles(h) = None THEN IoError(e) ELSE Ok(h)

\* Etw::OpenTraceW(log_file) returns a new handle (the lowest not used yet),
\* or a sentinel
OpenOs(t, h, e) ==
    /\ Running /\ pc[t] = "o_os"
    /\ \/ h \in SentinelHandles /\ e \in OtherErrors /\ UNCHANGED osSub
       \/ /\ h \in ValidHandles /\ e = ERROR_SUCCESS
          /\ osSub[h].st = "unused"
          /\ \A g \in ValidHandles : g[4] < h[4] => osSub[g].st # "unused"
          /\ osSub' = [osSub EXCEPT ![h] =
                 [ctx |-> loc[t].ctx, obj |-> loc[t].obj, st |-> "open"]]
    /\ registry' = open_trace_registry(registry, loc[t].ctx, h)
    /\ pc' = [pc EXCEPT ![t] = "ret"]
    /\ loc' = [loc EXCEPT ![t].os = "OpenTraceW", ![t].h = h, ![t].status = e,
                          ![t].res = open_trace_result(h, e)]
    /\ UNCHANGED <<lock, boxLive, boxGen, strong, delivered, nextRec, exited>>

(* ------------------------------ close_trace --------------------------- *)
\* the handles a caller can pass with the handler state at a: a sentinel, or
\* one that open_trace returned for this handler state
CloseArgs(a) ==
    SentinelHandles \cup {h \in ValidHandles : osSub[h].obj = ObjAt(a)}

\* (variant of close_trace that unregisters the context before it validates
\* the handle)
CloseBegin_unregisters_first(t, h, a) ==
    /\ Running /\ pc[t] = "idle"
    /\ boxLive[a] /\ h \in CloseArgs(a)
    /\ lock = NoThread
    /\ LET l == [NoLoc EXCEPT !.op = "close_trace", !.ctx = a, !.h = h,
                              !.obj = ObjAt(a)] IN
       IF filter_invalid_trace_handles(h) = None
          THEN /\ registry' = UVC_remove(registry, a)
               /\ pc' = [pc EXCEPT ![t] = "ret"]
               /\ loc' = [loc EXCEPT ![t] = [l EXCEPT !.res = InvalidHandle]]
               /\ UNCHANGED lock
          ELSE /\ lock' = t
               /\ pc' = [pc EXCEPT ![t] = "c_remove"]
               /\ loc' = [loc EXCEPT ![t] = l]
               /\ UNCHANGED registry
    /\ UNCHANGED <<boxLive, boxGen, strong, osSub, delivered, nextRec, exited>>

\* filter_invalid_trace_handles(trace_handle): None gives Err(InvalidHandle),
\* Some(handle) goes on to UNIQUE_VALID_CONTEXTS.remove, which takes the lock
CloseBegin(t, h, a) ==
    /\ Running /\ pc[t] = "idle"
    /\ boxLive[a] /\ h \in CloseArgs(a)
    /\ LET l == [NoLoc EXCEPT !.op = "close_trace", !.ctx = a, !.h = h,
                              !.obj = ObjAt(a)] IN
       IF filter_invalid_trace_handles(h) = None
          THEN /\ pc' = [pc EXCEPT ![t] = "ret"]
               /\ loc' = [loc EXCEPT ![t] = [l EXCEPT !.res = InvalidHandle]]
               /\ UNCHANGED lock
          ELSE /\ Acquire(t)
               /\ pc' = [pc EXCEPT ![t] = "c_remove"]
               /\ loc' = [loc EXCEPT ![t] = l]
    /\ UNCHANGED <<registry, boxLive, boxGen, strong, osSub, delivered,
                   nextRec, exited>>

\* (variant of close_trace that goes on to CloseTrace with the context still
\* registered)
CloseRemove_late(t) ==
    /\ Running /\ pc[t] = "c_remove"
    /\ Release(t)
    /\ pc' = [pc EXCEPT ![t] = "c_os"]
    /\ UNCHANGED <<registry, boxLive, boxGen, strong, osSub, loc, delivered,
                   nextRec, exited>>

\* ... removes the context and releases the lock; found is what
\* HashSet::remove answers, which the code drops
CloseRemove(t) ==
    /\ Running /\ pc[t] = "c_remove"
    /\ Release(t)
    /\ registry' = UVC_remove(registry, loc[t].ctx)
    /\ pc' = [pc EXCEPT ![t] = "c_os"]
    /\ loc' = [loc EXCEPT ![t].found = loc[t].ctx \in registry]
    /\ UNCHANGED <<boxLive, boxGen, strong, osSub, delivered, nextRec, exited>>

\* (variant of the match that has no arm for the close-pending status)
close_trace_result_no_pending(status) ==
    IF status = ERROR_SUCCESS THEN Ok(FALSE) ELSE IoError(ToHresult(status))

\* the match on the status of CloseTrace(handle).ok()
close_trace_result(status) ==
    IF status = ERROR_SUCCESS THEN Ok(FALSE)
    ELSE IF ToHresult(status) = ToHresult(ERROR_CTX_CLOSE_PENDING) THEN Ok(TRUE)
    ELSE IoError(ToHresult(status))

\* what CloseTrace can answer for a subscription in state st, and the state
\* it leaves the subscription in
OsClose(st) ==
    IF st = "open"
      THEN {<<ERROR_SUCCESS, "closed">>, <<ERROR_CTX_CLOSE_PENDING, "closed">>}
      ELSE {<<NotOpenStatus, st>>}
CloseStatuses == {ERROR_SUCCESS, ERROR_CTX_CLOSE_PENDING, NotOpenStatus}

\* (variant of close_trace that registers the context again when CloseTrace
\* fails)
CloseOs_restores_on_error(t, status) ==
    /\ Running /\ pc[t] = "c_os"
    /\ \E o \in OsClose(osSub[loc[t].h].st) :
          /\ o[1] = status
          /\ osSub' = [osSub EXCEPT ![loc[t].h].st = o[2]]
    /\ registry' = IF close_trace_result(status).tag = "IoError" /\ loc[t].found
                     THEN registry \cup {loc[t].ctx} ELSE registry
    /\ pc' = [pc EXCEPT ![t] = "ret"]
    /\ loc' = [loc EXCEPT ![t].os = "CloseTrace", ![t].osarg = <<loc[t].h>>,
                          ![t].status = status,
                          ![t].res = close_trace_result(status)]
    /\ UNCHANGED <<lock, boxLive, boxGen, strong, delivered, nextRec, exited>>

\* Etw::CloseTrace(handle) and the result of close_trace
CloseOs(t, status) ==
    /\ Running /\ pc[t] = "c_os"
    /\ \E o \in OsClose(osSub[loc[t].h].st) :
          /\ o[1] = status
          /\ osSub' = [osSub EXCEPT ![loc[t].h].st = o[2]]
    /\ pc' = [pc EXCEPT ![t] = "ret"]
    /\ loc' = [loc EXCEPT ![t].os = "CloseTrace", ![t].osarg = <<loc[t].h>>,
                          ![t].status = status,
                          ![t].res = close_trace_result(status)]
    /\ UNCHANGED <<registry, lock, boxLive, boxGen, strong, delivered,
                   nextRec, exited>>

(* ------------------------------- the system --------------------------- *)
Next ==
    \/ \E t \in Thread : Return(t)
    \/ \E t \in CbThread, p \in BadRecords : ThunkNull(t, p)
    \/ \E t \in CbThread, h \in ValidHandles : ThunkCall(t, h)
    \/ \E t \in CbThread : ThunkIsValid(t)
    \/ \E t \in CbThread, crashes \in BOOLEAN : ThunkClone(t, crashes)
    \/ \E t \in CbThread : ThunkOnEvent(t)
    \/ \E t \in CbThread, panics \in BOOLEAN : ThunkHandlerDone(t, panics)
    \/ \E t \in CbThread : ThunkCatch(t)
    \/ \E a \in Addr : AllocBox(a)
    \/ \E a \in Addr : DropBox(a)
    \/ \E t \in CtlThread, a \in Addr : OpenBegin(t, a)
    \/ \E t \in CtlThread : OpenInsert(t)
    \/ \E t \in CtlThread, h \in ValidHandles \cup SentinelHandles,
          e \in OtherErrors \cup {ERROR_SUCCESS} : OpenOs(t, h, e)
    \/ \E t \in CtlThread, a \in Addr,
          h \in ValidHandles \cup SentinelHandles : CloseBegin(t, h, a)
    \/ \E t \in CtlThread : CloseRemove(t)
    \/ \E t \in CtlThread, status \in CloseStatuses : CloseOs(t, status)

Spec == Init /\ [][Next]_vars

(* --------------- control operations that keep no state ---------------- *)
\* Win32 statuses and handle values the OS answers with
Win32Statuses ==
    {ERROR_SUCCESS, ERROR_ALREADY_EXISTS, ERROR_CTX_CLOSE_PENDING} \cup
    OtherErrors
ControlHandles ==
    {U64Zero, U64(0, 0, 0, 1), U64(0, 0, 1, 0), U64(1, 0, 0, 0), U32MaxAsU64,
     U64Max}
TraceHandles ==
    ValidHandles \cup SentinelHandles \cup
    {U64Zero, U64(0, 0, LimbMax, LimbMax - 1), U64(0, 1, LimbMax, LimbMax),
     U64(LimbMax, LimbMax, LimbMax, LimbMax - 1), U64(LimbMax, LimbMax, 0, 0)}
ControlCodes == {"QUERY", "STOP", "UPDATE", "FLUSH"}

\* map_err over the status of an OS primitive: Ok(()) or IoError(code)
io_result(status) ==
    IF status = ERROR_SUCCESS THEN Ok(<<>>) ELSE IoError(ToHresult(status))

\* (variant of start_trace that does not validate the control handle)
start_trace_result_unfiltered(status, control_handle) ==
    IF status # ERROR_SUCCESS /\ ToHresult(status) = ToHresult(ERROR_ALREADY_EXISTS)
      THEN AlreadyExist
    ELSE IF status # ERROR_SUCCESS THEN IoError(ToHresult(status))
    ELSE Ok(control_handle)

\* start_trace after StartTraceW answered status and wrote control_handle
start_trace_result(status, control_handle) ==
    IF status # ERROR_SUCCESS /\ ToHresult(status) = ToHresult(ERROR_ALREADY_EXISTS)
      THEN AlreadyExist
    ELSE IF status # ERROR_SUCCESS /\ ToHresult(status) # ToHresult(ERROR_SUCCESS)
      THEN IoError(ToHresult(status))
    ELSE IF filter_invalid_control_handle(control_handle) = None
      THEN InvalidHandle
    ELSE Ok(control_handle)

\* a call that runs to its end in one step
Whole(t, l) ==
    /\ Running /\ pc[t] = "idle"
    /\ pc' = [pc EXCEPT ![t] = "ret"]
    /\ loc' = [loc EXCEPT ![t] = l]
    /\ UNCHANGED <<registry, lock, boxLive, boxGen, strong, osSub, delivered,
                   nextRec, exited>>

\* start_trace: StartTraceW(&mut control_handle, name, properties)
StartTrace(t, status, control_handle) ==
    Whole(t, [NoLoc EXCEPT !.op = "start_trace", !.os = "StartTraceW",
                           !.status = status, !.h = control_handle,
                           !.res = start_trace_result(status, control_handle)])

\* EventTraceProperties::new: the properties before the query, header zeroed
EventTraceProperties_new == [HistoricalContext |-> U64Zero]

\* properties.as_mut_ptr(): the OS writes the header the wrapper begins with
as_mut_ptr_write(properties, historical_context) ==
    [properties EXCEPT !.HistoricalContext = historical_context]

\* (variant that treats the already-exists status as start_trace does)
open_existing_trace_result_as_start(status, historical_context) ==
    IF status # ERROR_SUCCESS /\ ToHresult(status) = ToHresult(ERROR_ALREADY_EXISTS)
      THEN AlreadyExist
    ELSE IF status # ERROR_SUCCESS THEN IoError(ToHresult(status))
    ELSE Ok(historical_context)

\* open_existing_trace after ControlTraceW answered status; historical_context
\* is what Wnode.HistoricalContext of the properties then holds
open_existing_trace_result(status, historical_context) ==
    IF status # ERROR_SUCCESS THEN IoError(ToHresult(status))
    ELSE Ok(historical_context)

\* open_existing_trace: ControlTraceW(0, name, properties, QUERY); on success
\* the OS has written the session's handle into the header
OpenExistingTrace(t, status, written) ==
    LET properties == IF status = ERROR_SUCCESS
                        THEN as_mut_ptr_write(EventTraceProperties_new, written)
                        ELSE EventTraceProperties_new
    IN
    Whole(t, [NoLoc EXCEPT !.op = "open_existing_trace", !.os = "ControlTraceW",
                           !.osarg = <<U64Zero, "name", "QUERY">>,
                           !.status = status, !.h = written,
                           !.res = open_existing_trace_result(
                                       status, properties.HistoricalContext)])

\* enable_provider: EnableTraceEx2 unless the control handle is invalid
EnableProvider(t, control_handle, status) ==
    Whole(t, IF filter_invalid_control_handle(control_handle) = None
      THEN [NoLoc EXCEPT !.op = "enable_provider", !.h = control_handle,
                         !.res = InvalidHandle]
      ELSE [NoLoc EXCEPT !.op = "enable_provider", !.h = control_handle,
                         !.os = "EnableTraceEx2",
                         !.osarg = <<Unwrap(filter_invalid_control_handle(control_handle))>>,
                         !.status = status, !.res = io_result(status)])

\* process_trace: ProcessTrace unless the subscription handle is a sentinel
ProcessTrace(t, trace_handle, status) ==
    Whole(t, IF filter_invalid_trace_handles(trace_handle) = None
      THEN [NoLoc EXCEPT !.op = "process_trace", !.h = trace_handle,
                         !.res = InvalidHandle]
      ELSE [NoLoc EXCEPT !.op = "process_trace", !.h = trace_handle,
                         !.os = "ProcessTrace",
                         !.osarg = <<Unwrap(filter_invalid_trace_handles(trace_handle))>>,
                         !.status = status, !.res = io_result(status)])

\* control_trace: ControlTraceW(handle, null, properties, control_code)
\* unless the control handle is invalid
ControlTrace(t, control_handle, control_code, status) ==
    Whole(t, IF filter_invalid_control_handle(control_handle) = None
      THEN [NoLoc EXCEPT !.op = "control_trace", !.h = control_handle,
                         !.res = InvalidHandle]
      ELSE [NoLoc EXCEPT !.op = "control_trace", !.h = control_handle,
                         !.os = "ControlTraceW",
                         !.osarg = <<Unwrap(filter_invalid_control_handle(
                                         control_handle)), "null", control_code>>,
                         !.status = status, !.res = io_result(status)])

NextCtl ==
    \/ \E t \in CtlThread : Return(t)
    \/ \E t \in CtlThread, status \in Win32Statuses, h \in ControlHandles :
          StartTrace(t, status, h)
    \/ \E t \in CtlThread, status \in Win32Statuses, h \in ControlHandles :
          OpenExistingTrace(t, status, h)
    \/ \E t \in CtlThread, h \in ControlHandles, status \in Win32Statuses :
          EnableProvider(t, h, status)
    \/ \E t \in CtlThread, h \in TraceHandles, status \in Win32Statuses :
          ProcessTrace(t, h, status)
    \/ \E t \in CtlThread, h \in ControlHandles, c \in ControlCodes,
          status \in Win32Statuses : ControlTrace(t, h, c, status)

SpecCtl == Init /\ [][NextCtl]_vars

(* ------------- one owner using every control operation ---------------- *)
\* the owner of the handler states calling the control operations one after
\* the other, no callback running
NextOwner ==
    \/ NextCtl
    \/ \E a \in Addr : AllocBox(a)
    \/ \E a \in Addr : DropBox(a)
    \/ \E t \in CtlThread, a \in Addr : OpenBegin(t, a)
    \/ \E t \in CtlThread : OpenInsert(t)
    \/ \E t \in CtlThread, h \in ValidHandles \cup SentinelHandles,
          e \in OtherErrors \cup {ERROR_SUCCESS} : OpenOs(t, h, e)
    \/ \E t \in CtlThread, a \in Addr,
          h \in ValidHandles \cup SentinelHandles : CloseBegin(t, h, a)
    \/ \E t \in CtlThread : CloseRemove(t)
    \/ \E t \in CtlThread, status \in CloseStatuses : CloseOs(t, status)

SpecOwner == Init /\ [][NextOwner]_vars

(* ============================== properties ============================ *)
InFlight == {"t_clone", "t_on_event", "t_in_handler"}
Quiet == \A t \in CtlThread : pc[t] \in {"idle", "ret"}
OpenSubs(a) == {h \in ValidHandles : osSub[h].st = "open" /\ osSub[h].ctx = a}

\* C1: once the dispatcher has found the context registered, the handler
\* state stays alive until the invocation returns: the Box it is about to
\* read is allocated, and the CallbackData it dispatches to was not read from
\* freed memory and has a positive strong count.
C1_HandlerStateAliveDuringDispatch ==
    \A t \in CbThread :
        (loc[t].found /\ pc[t] \in InFlight) =>
            IF pc[t] = "t_clone" THEN boxLive[loc[t].ctx]
            ELSE ~loc[t].stale /\ strong[loc[t].obj] > 0

\* C2: when close_trace returns Ok the context is not in the registry, and a
\* dispatcher invocation that begins while the context is not registered, and
\* is not registered again meanwhile, finds nothing, makes no on_event call
\* and reads no handler state.
C2_ClosedContextDiscarded ==
    /\ \A t \in CtlThread :
          (pc[t] = "ret" /\ loc[t].op = "close_trace" /\ loc[t].res.tag = "Ok")
              => loc[t].ctx \notin registry
    /\ \A t \in CbThread :
          loc[t].fresh =>
              /\ ~loc[t].found /\ loc[t].n = 0 /\ loc[t].obj = NoObj
              /\ pc[t] \notin InFlight

\* a record of a closed subscription was discarded after the close
C2_Witness ==
    \E t \in CbThread :
        /\ pc[t] = "ret" /\ loc[t].fresh /\ loc[t].rec > 0
        /\ osSub[loc[t].h].st = "closed"
        /\ loc[t].res = Returned(0)

\* C3: whenever no open_trace or close_trace is in progress, an address is in
\* the registry if and only if exactly one open subscription has it as its
\* context.
C3_RegisteredIffOneOpenSubscription ==
    Quiet => \A a \in Addr : (a \in registry) <=> (Cardinality(OpenSubs(a)) = 1)

\* C4: close_trace has removed the context from the registry by the time it
\* calls CloseTrace: while it is about to call it, and once it has called it,
\* the context is not registered.
C4_UnregisteredBeforeOsClose ==
    \A t \in CtlThread :
        (loc[t].op = "close_trace" /\ (pc[t] = "c_os" \/ loc[t].os = "CloseTrace"))
            => loc[t].ctx \notin registry

\* close_trace took a registered context out and then called CloseTrace
C4_Witness ==
    \E t \in CtlThread :
        /\ pc[t] = "ret" /\ loc[t].op = "close_trace"
        /\ loc[t].os = "CloseTrace" /\ loc[t].found

\* C5: an invocation with a well-formed record makes exactly one on_event
\* call on the handler state if the registry had its context when it looked,
\* and none if it had not; the call is made on a live handler state.
C5_OneDeliveryIffRegistered ==
    \A t \in CbThread :
        /\ (pc[t] = "ret" /\ loc[t].rec > 0) =>
              /\ loc[t].n = (IF loc[t].found THEN 1 ELSE 0)
              /\ ~loc[t].stale
        /\ (exited = "crash" /\ loc[t].found) => loc[t].n = 1

\* C6: an insert of an address that is registered leaves the registry as it
\* was, and open_trace returns AlreadyExist without calling OpenTraceW.
C6_DoubleRegisterRejected ==
    [][\A t \in CtlThread :
          (pc[t] = "o_insert" /\ pc'[t] # "o_insert" /\ loc[t].ctx \in registry)
              => /\ registry' = registry
                 /\ pc'[t] = "ret"
                 /\ loc'[t].res = AlreadyExist
                 /\ loc'[t].os = "none"]_vars

\* open_trace was called with a registered handler state and returned
C6_Witness ==
    \E t \in CtlThread :
        /\ pc[t] = "ret" /\ loc[t].op = "open_trace"
        /\ loc[t].res = AlreadyExist /\ loc[t].ctx \in registry

\* C7: when OpenTraceW returns a sentinel handle, open_trace returns an
\* IoError and the context is still registered.
C7_FailedOpenStaysRegistered ==
    \A t \in CtlThread :
        (pc[t] = "ret" /\ loc[t].op = "open_trace" /\ loc[t].os = "OpenTraceW"
           /\ loc[t].h \in SentinelHandles)
            => loc[t].res.tag = "IoError" /\ loc[t].ctx \in registry

C7_Witness ==
    \E t \in CtlThread :
        /\ pc[t] = "ret" /\ loc[t].op = "open_trace"
        /\ loc[t].os = "OpenTraceW" /\ loc[t].h = U64Max
        /\ loc[t].res.tag = "IoError"

\* C8: close_trace that called CloseTrace returns Ok(true) exactly for the
\* close-pending status, Ok(false) exactly for success, and an IoError for
\* every other status.
C8_CloseResultByStatus ==
    \A t \in CtlThread :
        (pc[t] = "ret" /\ loc[t].op = "close_trace" /\ loc[t].os = "CloseTrace")
            => /\ (loc[t].res = Ok(TRUE)) <=> (loc[t].status = ERROR_CTX_CLOSE_PENDING)
               /\ (loc[t].res = Ok(FALSE)) <=> (loc[t].status = ERROR_SUCCESS)
               /\ (loc[t].res.tag = "IoError") <=>
                      (loc[t].status \notin {ERROR_SUCCESS, ERROR_CTX_CLOSE_PENDING})
               /\ loc[t].res.tag \in {"Ok", "IoError"}

\* CloseTrace answered close-pending and close_trace returned Ok(true)
C8_Witness ==
    \E t \in CtlThread :
        /\ pc[t] = "ret" /\ loc[t].op = "close_trace"
        /\ loc[t].status = ERROR_CTX_CLOSE_PENDING /\ loc[t].res = Ok(TRUE)

\* C9: start_trace returns AlreadyExist for the already-exists status, an
\* IoError whose code is the HRESULT of the OS status (its low 16 bits are
\* the status) for every other failure, InvalidHandle for success with a zero
\* control handle, and Ok only with the non-zero handle the OS wrote.
C9_StartTraceResult ==
    \A t \in CtlThread :
        (pc[t] = "ret" /\ loc[t].op = "start_trace") =>
            /\ loc[t].status = ERROR_ALREADY_EXISTS => loc[t].res = AlreadyExist
            /\ loc[t].status \notin {ERROR_SUCCESS, ERROR_ALREADY_EXISTS} =>
                  /\ loc[t].res.tag = "IoError"
                  /\ loc[t].res.val < 0
                  /\ loc[t].res.val % 65536 = loc[t].status
            /\ (loc[t].status = ERROR_SUCCESS /\ loc[t].h = U64Zero) =>
                  loc[t].res = InvalidHandle
            /\ loc[t].res.tag = "Ok" =>
                  /\ loc[t].status = ERROR_SUCCESS
                  /\ loc[t].res.val = loc[t].h /\ loc[t].res.val # U64Zero

\* StartTraceW succeeded but wrote a zero handle
C9_Witness ==
    \E t \in CtlThread :
        /\ pc[t] = "ret" /\ loc[t].op = "start_trace"
        /\ loc[t].status = ERROR_SUCCESS /\ loc[t].h = U64Zero
        /\ loc[t].res = InvalidHandle

\* C10: the remove of close_trace never fails; if the address was not
\* registered the registry stays as it was, and in every case the membership
\* of every other address is unchanged.
C10_RemoveFrame ==
    [][\A t \in CtlThread :
          (pc[t] = "c_remove" /\ pc'[t] # "c_remove") =>
              /\ pc'[t] = "c_os" /\ exited' = "no"
              /\ loc[t].ctx \notin registry => registry' = registry
              /\ \A b \in Addr \ {loc[t].ctx} :
                    (b \in registry') <=> (b \in registry)]_vars

\* an address that was not registered was removed while another one was
C10_Witness ==
    \E t \in CtlThread :
        /\ pc[t] = "c_os" /\ ~loc[t].found
        /\ registry # {} /\ loc[t].ctx \notin registry

\* C11: the registry lock is held only across one insert, remove or contains:
\* its holder is at the lookup of the dispatcher, at the insert of open_trace
\* or at the remove of close_trace.  A dispatcher invocation that is past the
\* lookup (cloning the Arc, entering on_event, inside on_event) does not hold
\* it, so the lock is then free or held by another thread's own short
\* registry operation.
C11_LockNotHeldDuringDispatch ==
    /\ \A t \in Thread :
          lock = t => pc[t] \in {"t_is_valid", "o_insert", "c_remove"}
    /\ \A t \in CbThread :
          pc[t] \in InFlight => lock \in {NoThread} \cup (Thread \ {t})

\* another thread holds the registry lock while on_event is running
C11_Witness ==
    \E t \in CbThread, u \in CtlThread :
        pc[t] = "t_in_handler" /\ lock = u /\ pc[u] \in {"o_insert", "c_remove"}

\* C12: a panic of on_event is caught by catch_unwind and ends the process:
\* an invocation that panicked never returns to the OS (it stays where the
\* panic was caught until the process exits), exit(1) happens only for an
\* invocation that panicked, and once the process has ended no on_event call
\* is made and no thread moves.
C12_PanicEndsProcess ==
    [][/\ \A t \in CbThread :
             pc[t] = "t_panicked" => pc'[t] = "t_panicked" /\ loc'[t] = loc[t]
       /\ (exited = "no" /\ exited' = "exit1") =>
             \E t \in CbThread : pc[t] = "t_panicked" /\ loc[t].n = 1
       /\ exited # "no" => delivered' = delivered /\ pc' = pc]_vars

\* on_event panicked after the record was handed over and the process exited
C12_Witness ==
    /\ exited = "exit1"
    /\ \E t \in CbThread :
          pc[t] = "t_panicked" /\ loc[t].n = 1 /\ loc[t].rec \in
              {delivered[i] : i \in 1..Len(delivered)}

\* C13: the on_event calls follow the invocations one to one and in order.
\* The delivered records are in the order the OS handed them over, each one
\* once and each one a record the OS did hand over; the record of an
\* invocation that found its context registered is the last one delivered
\* from the moment on_event is entered, and the record of an invocation that
\* has not reached on_event, or found its context missing, is not among them.
C13_DeliveredInOrder ==
    LET Delivered == {delivered[i] : i \in 1..Len(delivered)} IN
    /\ \A i, j \in 1..Len(delivered) : i < j => delivered[i] < delivered[j]
    /\ Delivered \subseteq 1..(nextRec - 1)
    /\ \A t \in CbThread :
          loc[t].rec > 0 =>
              IF \/ pc[t] \in {"t_in_handler", "t_panicked"}
                 \/ pc[t] = "ret" /\ loc[t].found
                THEN Len(delivered) > 0 /\ delivered[Len(delivered)] = loc[t].rec
                ELSE loc[t].rec \notin Delivered

\* two records of one subscription that is still open and registered were
\* handed over and delivered, the second invocation has just returned
C13_Witness ==
    \E t \in CbThread :
        /\ pc[t] = "ret" /\ loc[t].found /\ loc[t].rec = 2
        /\ delivered = <<1, 2>>
        /\ osSub[loc[t].h].st = "open" /\ loc[t].ctx \in registry
        /\ Cardinality(OsRecords) = 1

\* C14: the subscription-handle validator rejects a handle exactly when all
\* its 64 bits are ones or its low 32 bits are ones and the rest zero:
\* process_trace returns InvalidHandle for these two values only, and for
\* every other value it passes that same value on to ProcessTrace.
C14_TraceHandleValidator ==
    \A t \in CtlThread :
        (pc[t] = "ret" /\ loc[t].op = "process_trace") =>
            LET h == loc[t].h
                lowOnes == h[3] = LimbMax /\ h[4] = LimbMax
                sentinel == \/ lowOnes /\ h[1] = LimbMax /\ h[2] = LimbMax
                            \/ lowOnes /\ h[1] = 0 /\ h[2] = 0
            IN  /\ (loc[t].res = InvalidHandle) <=> sentinel
                /\ ~sentinel => /\ loc[t].os = "ProcessTrace"
                                /\ loc[t].osarg = <<h>>
                                /\ loc[t].res = io_result(loc[t].status)

\* process_trace was given u32::MAX widened to 64 bits and refused it
C14_Witness ==
    \E t \in CtlThread :
        /\ pc[t] = "ret" /\ loc[t].op = "process_trace"
        /\ loc[t].h = <<0, 0, LimbMax, LimbMax>> /\ loc[t].res = InvalidHandle

\* C15: the control-handle validator rejects a handle exactly when it is
\* zero: enable_provider and control_trace return InvalidHandle for zero
\* only, and for every other value they pass that same value on to the OS.
C15_ControlHandleValidator ==
    \A t \in CtlThread :
        (pc[t] = "ret" /\ loc[t].op \in {"enable_provider", "control_trace"}) =>
            LET h == loc[t].h
                zero == \A i \in 1..4 : h[i] = 0
            IN  /\ (loc[t].res = InvalidHandle) <=> zero
                /\ ~zero => /\ loc[t].os \in {"EnableTraceEx2", "ControlTraceW"}
                            /\ loc[t].osarg[1] = h
                            /\ loc[t].res = io_result(loc[t].status)

\* a handle whose low 32 bits are zero but which is not zero was accepted
C15_Witness ==
    \E t \in CtlThread :
        /\ pc[t] = "ret" /\ loc[t].op = "control_trace"
        /\ loc[t].h = <<1, 0, 0, 0>> /\ loc[t].os = "ControlTraceW"
        /\ loc[t].res.tag = "Ok"

\* C16: a call whose handle fails validation (enable_provider or
\* control_trace with the zero control handle, process_trace or close_trace
\* with a sentinel subscription handle) returns InvalidHandle at once: no OS
\* primitive is invoked, the OS's subscriptions are as before, the registry
\* lock is not taken and the registry is unchanged, so close_trace has not
\* unregistered the context it was given.
C16_InvalidHandleNoEffect ==
    [][\A t \in CtlThread :
          (/\ pc[t] = "idle" /\ pc'[t] # "idle"
           /\ \/ /\ loc'[t].op \in {"enable_provider", "control_trace"}
                 /\ loc'[t].h = U64Zero
              \/ /\ loc'[t].op \in {"process_trace", "close_trace"}
                 /\ loc'[t].h \in SentinelHandles)
            => /\ pc'[t] = "ret"
               /\ loc'[t].res = InvalidHandle
               /\ loc'[t].os = "none" /\ loc'[t].osarg = NoArg
               /\ osSub' = osSub
               /\ lock' = lock
               /\ registry' = registry]_vars

\* close_trace was given a sentinel handle and a registered handler state
\* and returned InvalidHandle
C16_Witness ==
    \E t \in CtlThread :
        /\ pc[t] = "ret" /\ loc[t].op = "close_trace"
        /\ loc[t].h \in SentinelHandles /\ loc[t].res = InvalidHandle
        /\ loc[t].ctx \in registry
        /\ \E h \in ValidHandles : osSub[h].st = "open" /\ osSub[h].ctx = loc[t].ctx

\* C17: open_existing_trace makes one ControlTraceW call, by name: control
\* handle zero and control code QUERY.  For every status other than success
\* it returns an IoError whose code is the HRESULT of that status (never
\* AlreadyExist or InvalidHandle), and for success it returns Ok with the
\* value the OS wrote into Wnode.HistoricalContext.
C17_OpenExistingTraceResult ==
    \A t \in CtlThread :
        (pc[t] = "ret" /\ loc[t].op = "open_existing_trace") =>
            /\ loc[t].os = "ControlTraceW"
            /\ loc[t].osarg = <<U64Zero, "name", "QUERY">>
            /\ loc[t].status # ERROR_SUCCESS =>
                  /\ loc[t].res.tag = "IoError"
                  /\ loc[t].res.val < 0
                  /\ loc[t].res.val % 65536 = loc[t].status
            /\ loc[t].status = ERROR_SUCCESS => loc[t].res = Ok(loc[t].h)

\* the query answered already-exists and open_existing_trace returned IoError
C17_Witness ==
    \E t \in CtlThread :
        /\ pc[t] = "ret" /\ loc[t].op = "open_existing_trace"
        /\ loc[t].status = ERROR_ALREADY_EXISTS /\ loc[t].res.tag = "IoError"

\* C18: an invocation whose record pointer cannot be interpreted (null or
\* malformed) returns at once and normally: it does not take the registry
\* lock or look anything up, reads no handler state, makes no on_event call,
\* changes no strong count and does not end the process.
C18_BadRecordDiscarded ==
    [][\A t \in CbThread :
          (pc[t] = "idle" /\ pc'[t] # "idle" /\ loc'[t].rec \in BadRecords)
            => /\ pc'[t] = "ret"
               /\ loc'[t].res = Returned(0)
               /\ ~loc'[t].found /\ loc'[t].obj = NoObj
               /\ lock' = lock /\ registry' = registry
               /\ delivered' = delivered /\ strong' = strong
               /\ exited' = "no"]_vars

\* a malformed record was discarded while a subscription was open and its
\* context registered
C18_Witness ==
    \E t \in CbThread :
        /\ pc[t] = "ret" /\ loc[t].rec = MalformedRecord
        /\ loc[t].res = Returned(0)
        /\ \E h \in ValidHandles :
              osSub[h].st = "open" /\ osSub[h].ctx \in registry
        /\ exited = "no"

\* C19: a control handle that start_trace or open_existing_trace returns in
\* an Ok passes filter_invalid_control_handle: it is not zero.
C19_ReturnedControlHandleValid ==
    \A t \in CtlThread :
        (/\ pc[t] = "ret"
         /\ loc[t].op \in {"start_trace", "open_existing_trace"}
         /\ loc[t].res.tag = "Ok")
            => filter_invalid_control_handle(loc[t].res.val) # None

\* C20: an on_event call is made on the handler state of the subscription
\* the record belongs to: from the entry into on_event on, the CallbackData
\* the invocation dispatches to is the one open_trace was given when it
\* opened the record's subscription, also when that subscription was closed,
\* its handler state freed and another one allocated at the same address
\* and subscribed.
C20_DeliveredToOwnSubscription ==
    \A t \in CbThread :
        (loc[t].rec > 0 /\ loc[t].n = 1) => loc[t].obj = osSub[loc[t].h].obj

\* C21: when close_trace, given a valid subscription handle, returns, the
\* context it was given is not in the registry, whatever CloseTrace answered:
\* after Ok(false), after Ok(true) and after an IoError alike; on the error
\* path a context that was registered before the call has been taken out.
C21_UnregisteredOnEveryCloseResult ==
    \A t \in CtlThread :
        (/\ pc[t] = "ret" /\ loc[t].op = "close_trace"
         /\ filter_invalid_trace_handles(loc[t].h) # None)
            => /\ loc[t].res.tag \in {"Ok", "IoError"}
               /\ loc[t].ctx \notin registry

\* CloseTrace failed on a call that had found the context registered, and
\* close_trace returned the IoError
C21_Witness ==
    \E t \in CtlThread :
        /\ pc[t] = "ret" /\ loc[t].op = "close_trace"
        /\ loc[t].found /\ loc[t].res.tag = "IoError"
        /\ loc[t].status \notin {ERROR_SUCCESS, ERROR_CTX_CLOSE_PENDING}
        /\ loc[t].ctx \notin registry

====
